---- MODULE Spec2Model ----
(***************************************************************************)
(* Verification model of laplace/curvature.py: the curvature interfaces    *)
(* CurvatureInterface, BackPackInterface, BackPackGGN and BackPackEF.      *)
(*                                                                         *)
(* Numbers are exact rationals <<n, d>> (d > 0, lowest terms).  Logits of  *)
(* a classification example are given as f = ln(out) with out a positive   *)
(* integer vector, so that softmax(f) = out / sum(out) is rational.  A     *)
(* cross-entropy value is c * (-ln q) with c, q rational.                  *)
(***************************************************************************)
EXTENDS Integers, Sequences, FiniteSets, TLC

VARIABLES
    iface,      \* the interface object (self): its attributes
    ctor,       \* outcome and event trace of the constructor call
    extended,   \* objects registered with the differentiation engine (extend)
    params,     \* values of the model's parameter tensors
    attrs,      \* names of the attributes the engine has stored on the parameters
    pending,    \* the call the caller has issued and the handler has not yet run
    res,        \* what the last completed call returned or raised
    lastErr     \* the most recent failing call and its error

vars == <<iface, ctor, extended, params, attrs, pending, res, lastErr>>

----------------------------------------------------------------------------
(* Bounds of the model *)

\* largest batch size M = len(y)
MaxM == 2

\* largest dataset size N handed to kron
MaxN == 2

----------------------------------------------------------------------------
(* Exact rational arithmetic *)

Abs(i) == IF i < 0 THEN -i ELSE i

RECURSIVE GCD(_, _)
GCD(a, b) == IF b = 0 THEN a ELSE GCD(b, a % b)

Rat(n, d) ==
    LET g == GCD(Abs(n), Abs(d))
        s == IF d < 0 THEN -1 ELSE 1
    IN  <<(s * n) \div g, (s * d) \div g>>

RInt(i) == <<i, 1>>
RZero == RInt(0)
ROne == RInt(1)
RAdd(a, b) == Rat(a[1] * b[2] + b[1] * a[2], a[2] * b[2])
RSub(a, b) == Rat(a[1] * b[2] - b[1] * a[2], a[2] * b[2])
RMul(a, b) == Rat(a[1] * b[1], a[2] * b[2])

RECURSIVE RSum(_)
RSum(s) == IF s = <<>> THEN RZero ELSE RAdd(Head(s), RSum(Tail(s)))

RECURSIVE RProd(_)
RProd(s) == IF s = <<>> THEN ROne ELSE RMul(Head(s), RProd(Tail(s)))

RECURSIVE Flatten(_)
Flatten(ss) == IF ss = <<>> THEN <<>> ELSE Head(ss) \o Flatten(Tail(ss))

\* a real number c * u, with u = 1 (base Unit) or u = -ln(base), 0 < base <= 1
Unit == <<0, 1>>

Scalar(c, base) ==
    IF c = RZero \/ base = ROne THEN [c |-> RZero, base |-> Unit]
    ELSE [c |-> c, base |-> base]

ScalarMul(r, s) == Scalar(RMul(r, s.c), s.base)

----------------------------------------------------------------------------
(* The model collaborator and the batches *)

\* model.parameters(): the ordered parameter tensors
ParamNames == <<"first.weight", "last.weight", "last.bias">>

\* number of elements of each parameter tensor
Numel == <<1, 2, 1>>

\* the tensors of model.last_layer
LastLayerTensors == <<2, 3>>

AllTensors == <<1, 2, 3>>

\* flat positions of tensor i in the concatenation of all flattened tensors
RECURSIVE Offset(_)
Offset(i) == IF i = 1 THEN 0 ELSE Offset(i - 1) + Numel[i - 1]

FlatOf(i) == [j \in 1..Numel[i] |-> Offset(i) + j]

\* An example carries what the opaque model yields on it: the Jacobian of the
\* outputs with respect to all parameters (one row per output dimension), the
\* outputs (regression: f = out; classification: f = ln(out)) and the target
\* (regression: the vector TargetVec[t]; classification: the class t).
JChoices ==
    << << <<1, 1, 0, 1>>, <<2, 0, 1, 1>> >>,
       << <<-1, 2, 1, 0>>, <<1, 0, -1, 1>> >> >>

OutTargets == << <<<<1, 1>>, 1>>, <<<<1, 3>>, 2>> >>

TargetVec == << <<1, 0>>, <<0, 2>> >>

\* the examples a batch is drawn from: <<index of the Jacobian, index of (out, t)>>
ExampleChoices == { <<1, 1>>, <<1, 2>>, <<2, 2>> }

Examples ==
    { [J |-> JChoices[c[1]], out |-> OutTargets[c[2]][1], t |-> OutTargets[c[2]][2]] :
        c \in ExampleChoices }

Batches == UNION { [1..m -> Examples] : m \in 1..MaxM }

\* self.model(X): the raw outputs, one vector per example
Forward(X) == [m \in 1..Len(X) |-> X[m].out]

\* the targets y the caller passes with X
Targets(likelihood, X) ==
    [m \in 1..Len(X) |->
        IF likelihood = "regression" THEN TargetVec[X[m].t] ELSE X[m].t]

Sum1(S, T(_)) == RSum([i \in S |-> T(i)])
Sum2(S1, S2, T(_, _)) == RSum(Flatten([i \in S1 |-> [j \in S2 |-> T(i, j)]]))
Sum3(S1, S2, S3, T(_, _, _)) ==
    RSum(Flatten(Flatten([i \in S1 |-> [j \in S2 |-> [k \in S3 |-> T(i, j, k)]]])))

----------------------------------------------------------------------------
(* torch: the two loss functions and softmax *)

\* MSELoss(reduction='sum')(f, y) = sum over examples and dims of (f - y)^2
MSELoss(f, y) ==
    Scalar(Sum2(1..Len(f), 1..Len(f[1]),
                LAMBDA m, k : RInt((f[m][k] - y[m][k]) * (f[m][k] - y[m][k]))),
           Unit)

\* torch.softmax(f, dim=-1) of the logits f = ln(w)
Softmax(w) == [k \in 1..Len(w) |-> Rat(w[k], Sum1(1..Len(w), LAMBDA c : RInt(w[c]))[1])]

\* CrossEntropyLoss(reduction='sum')(f, y) = - ln prod over examples of softmax(f)[y]
CrossEntropyLoss(f, y) ==
    Scalar(ROne, RProd([m \in 1..Len(f) |-> Softmax(f[m])[y[m]]]))

LossFunc(lossfunc, f, y) ==
    IF lossfunc = "MSELoss" THEN MSELoss(f, y) ELSE CrossEntropyLoss(f, y)

----------------------------------------------------------------------------
(* class CurvatureInterface *)

NoIface ==
    [family |-> "none", likelihood |-> "none", lossfunc |-> "none", factor |-> RZero,
     last_layer |-> FALSE, stochastic |-> FALSE, extra |-> {}]

\* CurvatureInterface.__init__(self, model, likelihood)
CurvatureInterface_init_assertless(self, likelihood) ==
    [status |-> "ok",
     self |-> IF likelihood = "regression"
              THEN [self EXCEPT !.likelihood = likelihood,
                                !.lossfunc = "MSELoss", !.factor = Rat(1, 2)]
              ELSE [self EXCEPT !.likelihood = likelihood,
                                !.lossfunc = "CrossEntropyLoss", !.factor = ROne],
     trace |-> <<"assert", "set_lossfunc">>]

CurvatureInterface_init(self, likelihood) ==
    IF likelihood \notin {"regression", "classification"}
    THEN [status |-> "AssertionError", self |-> self, trace |-> <<"assert">>]
    ELSE [status |-> "ok",
          self |-> IF likelihood = "regression"
                   THEN [self EXCEPT !.likelihood = likelihood,
                                     !.lossfunc = "MSELoss", !.factor = Rat(1, 2)]
                   ELSE [self EXCEPT !.likelihood = likelihood,
                                     !.lossfunc = "CrossEntropyLoss", !.factor = ROne],
          trace |-> <<"assert", "set_lossfunc">>]

\* second derivative of the log likelihood: diag(p) - p p^T, entry [c][k]
HLik(ps) ==
    [c \in 1..Len(ps) |-> [k \in 1..Len(ps) |->
        RSub(IF c = k THEN ps[c] ELSE RZero, RMul(ps[k], ps[c]))]]

HLikDiagonalOnly(ps) ==
    [c \in 1..Len(ps) |-> [k \in 1..Len(ps) |->
        IF c = k THEN RSub(ps[c], RMul(ps[c], ps[c])) ELSE RZero]]

MatScale(c, H) == [p \in 1..Len(H) |-> [q \in 1..Len(H[p]) |-> RMul(c, H[p][q])]]
VecScale(c, v) == [p \in 1..Len(v) |-> RMul(c, v[p])]

GetFullGGN_assemble(self, Js, f, H_lik) ==
    LET P == 1..Len(Js[1][1])
        K == 1..Len(f[1])
    IN  IF self.likelihood = "regression"
        THEN [p \in P |-> [q \in P |->
                Sum2(1..Len(Js), K, LAMBDA m, k : RInt(Js[m][k][p] * Js[m][k][q]))]]
        ELSE [p \in P |-> [q \in P |->
                Sum3(1..Len(Js), K, K,
                     LAMBDA m, c, k :
                        RMul(RInt(Js[m][c][p] * Js[m][k][q]), H_lik[m][c][k]))]]

\* as _get_full_ggn, but returning self.factor * H_ggn
GetFullGGN_scaled(self, Js, f, y) ==
    [loss |-> ScalarMul(self.factor, LossFunc(self.lossfunc, f, y)),
     H_ggn |-> MatScale(self.factor,
                  GetFullGGN_assemble(self, Js, f,
                      [m \in 1..Len(Js) |-> HLik(Softmax(f[m]))]))]

\* as _get_full_ggn, but with the diagonal approximation of H_lik
GetFullGGN_diagHlik(self, Js, f, y) ==
    [loss |-> ScalarMul(self.factor, LossFunc(self.lossfunc, f, y)),
     H_ggn |-> GetFullGGN_assemble(self, Js, f,
                  [m \in 1..Len(Js) |-> HLikDiagonalOnly(Softmax(f[m]))])]

\* as _get_full_ggn, but with the loss left unscaled
GetFullGGN_rawloss(self, Js, f, y) ==
    [loss |-> LossFunc(self.lossfunc, f, y),
     H_ggn |-> GetFullGGN_assemble(self, Js, f,
                  [m \in 1..Len(Js) |-> HLik(Softmax(f[m]))])]

\* CurvatureInterface._get_full_ggn(self, Js, f, y): (loss, H_ggn)
GetFullGGN(self, Js, f, y) ==
    LET loss == ScalarMul(self.factor, LossFunc(self.lossfunc, f, y))
        P == 1..Len(Js[1][1])
        K == 1..Len(f[1])
        H_lik == [m \in 1..Len(Js) |-> HLik(Softmax(f[m]))]
        H_ggn ==
            IF self.likelihood = "regression"
            THEN [p \in P |-> [q \in P |->
                    Sum2(1..Len(Js), K, LAMBDA m, k : RInt(Js[m][k][p] * Js[m][k][q]))]]
            ELSE [p \in P |-> [q \in P |->
                    Sum3(1..Len(Js), K, K,
                         LAMBDA m, c, k :
                            RMul(RInt(Js[m][c][p] * Js[m][k][q]), H_lik[m][c][k]))]]
    IN  [loss |-> loss, H_ggn |-> H_ggn]

----------------------------------------------------------------------------
(* class BackPackInterface *)

\* BackPackInterface._model
Model_(self) == IF self.last_layer THEN "model.last_layer" ELSE "model"

\* the tensors of self._model.parameters(), in order
Tensors(self) == IF self.last_layer THEN LastLayerTensors ELSE AllTensors

\* flat positions, in the full model, of the parameters of self._model
Cols(self) == Flatten([i \in 1..Len(Tensors(self)) |-> FlatOf(Tensors(self)[i])])

\* BackPackInterface.__init__(self, model, likelihood, last_layer)
BackPackInterface_init(self, likelihood, last_layer) ==
    LET base == CurvatureInterface_init(self, likelihood)
        withLast == [base.self EXCEPT !.last_layer = last_layer]
    IN  IF base.status # "ok"
        THEN [status |-> base.status, self |-> self, extended |-> {}, trace |-> base.trace]
        ELSE [status |-> "ok", self |-> withLast,
              extended |-> {Model_(withLast), "lossfunc"},
              trace |-> base.trace \o <<"extend_model", "extend_lossfunc">>]

\* BackPackGGN.__init__(self, model, likelihood, last_layer, stochastic)
BackPackGGN_init(self, likelihood, last_layer, stochastic) ==
    LET base == BackPackInterface_init(self, likelihood, last_layer)
    IN  IF base.status # "ok" THEN base
        ELSE [base EXCEPT !.self = [base.self EXCEPT !.stochastic = stochastic,
                                                     !.family = "GGN"]]

\* BackPackEF(model, likelihood, last_layer): the inherited constructor
BackPackEF_init(self, likelihood, last_layer) ==
    LET base == BackPackInterface_init(self, likelihood, last_layer)
    IN  IF base.status # "ok" THEN base
        ELSE [base EXCEPT !.self = [base.self EXCEPT !.family = "EF"]]

----------------------------------------------------------------------------
(* The differentiation engine and the Jacobian routine *)

\* the values the engine draws for a sampled or otherwise opaque quantity
Draws == {1, 2}

NoDraw == {0}

\* gradient of the loss of one example with respect to flat parameter p
GradExample(lossfunc, ex, p) ==
    IF lossfunc = "MSELoss"
    THEN Sum1(1..Len(ex.out),
              LAMBDA k : RInt(2 * (ex.out[k] - TargetVec[ex.t][k]) * ex.J[k][p]))
    ELSE Sum1(1..Len(ex.out),
              LAMBDA k : RMul(RSub(Softmax(ex.out)[k], IF k = ex.t THEN ROne ELSE RZero),
                              RInt(ex.J[k][p])))

\* Hessian of the loss function with respect to the outputs of one example
LossHessian(lossfunc, ex) ==
    IF lossfunc = "MSELoss"
    THEN [c \in 1..Len(ex.out) |-> [k \in 1..Len(ex.out) |->
            IF c = k THEN RInt(2) ELSE RZero]]
    ELSE HLik(Softmax(ex.out))

\* number of Kronecker factors the engine yields for each tensor
\* (a weight: two factors, a bias: one)
GroupLen == <<2, 2, 1>>

\* the attribute under which an extension stores its quantity on a parameter
AttrName(ext) ==
    CASE ext = "DiagGGNExact" -> "diag_ggn_exact"
      [] ext = "DiagGGNMC" -> "diag_ggn_mc"
      [] ext = "KFLR" -> "kflr"
      [] ext = "KFAC" -> "kfac"
      [] ext = "SumGradSquared" -> "sum_grad_squared"
      [] ext = "BatchGrad" -> "grad_batch"

\* with backpack(ext()): loss.backward() -- what is stored on each parameter
\* tensor of the extended module, in the order of its parameters()
Backward(ext, self, X, draw) ==
    LET ts == Tensors(self)
        M == 1..Len(X)
        K == 1..Len(X[1].out)
        perTensor(V(_, _)) ==
            [i \in 1..Len(ts) |-> [j \in 1..Numel[ts[i]] |-> V(ts[i], FlatOf(ts[i])[j])]]
        value ==
            CASE ext = "DiagGGNExact" ->
                    perTensor(LAMBDA t, p :
                        Sum3(M, K, K, LAMBDA m, c, k :
                            RMul(RInt(X[m].J[c][p] * X[m].J[k][p]),
                                 LossHessian(self.lossfunc, X[m])[c][k])))
              [] ext = "DiagGGNMC" ->
                    perTensor(LAMBDA t, p : RInt(draw * p))
              [] ext \in {"KFLR", "KFAC"} ->
                    [i \in 1..Len(ts) |->
                        IF GroupLen[ts[i]] = 2
                        THEN <<RInt(draw + ts[i]), RInt(2 * draw - 3)>>
                        ELSE <<RInt(draw)>>]
              [] ext = "SumGradSquared" ->
                    perTensor(LAMBDA t, p :
                        Sum1(M, LAMBDA m :
                            RMul(GradExample(self.lossfunc, X[m], p),
                                 GradExample(self.lossfunc, X[m], p))))
              [] ext = "BatchGrad" ->
                    [i \in 1..Len(ts) |-> [m \in M |-> [j \in 1..Numel[ts[i]] |->
                        GradExample(self.lossfunc, X[m], FlatOf(ts[i])[j])]]]
    IN  [name |-> AttrName(ext), value |-> value]

\* the draws the engine makes under an extension
DrawsOf(ext) == IF ext \in {"DiagGGNMC", "KFLR", "KFAC"} THEN Draws ELSE NoDraw

\* jacobians(model, X): (Js, f), Js[m][k][p] over all parameters
jacobians(X) == [Js |-> [m \in 1..Len(X) |-> X[m].J], f |-> Forward(X)]

\* last_layer_jacobians(model, X): (Js, f), Js[m][k][p] over the last layer's parameters
last_layer_jacobians(X) ==
    LET cols == Flatten([i \in 1..Len(LastLayerTensors) |-> FlatOf(LastLayerTensors[i])])
    IN  [Js |-> [m \in 1..Len(X) |-> [k \in 1..Len(X[m].J) |->
                    [p \in 1..Len(cols) |-> X[m].J[k][cols[p]]]]],
         f |-> Forward(X)]

\* Kron(kfacs): the container of the per-layer factor groups
Kron(kfacs) == [scale |-> ROne, kfacs |-> kfacs]

\* scalar * Kron: the container's own scalar product, kept symbolic
KronMul(c, kron) == [kron EXCEPT !.scale = RMul(c, kron.scale)]

----------------------------------------------------------------------------
(* Calls: argument binding and the outcome of a handler *)

NoStore == [name |-> "none", value |-> <<>>]

\* a handler that raises err: nothing is computed, nothing is stored
Raise(err, self) ==
    [status |-> err, loss |-> "none", curv |-> "none", trace |-> <<"raise">>,
     self |-> self, stored |-> NoStore, collected |-> "none"]

\* the declared parameters of the three operations (after self)
Signature(family, op) ==
    IF family = "GGN" /\ op = "kron"
    THEN [named |-> <<"X", "y", "N">>, varkw |-> TRUE]     \* kron(self, X, y, N, **wkwargs)
    ELSE [named |-> <<"X", "y">>, varkw |-> TRUE]          \* (self, X, y, **kwargs)

\* how the caller passes the arguments
CallStyle(style) ==
    CASE style = "xy" -> [npos |-> 2, kw |-> {}]                 \* op(X, y)
      [] style = "positional" -> [npos |-> 3, kw |-> {}]         \* kron(X, y, N)
      [] style = "keyword" -> [npos |-> 2, kw |-> {"N"}]         \* kron(X, y, N=N)

\* Python's binding of a call to a signature
Bind(sig, call) ==
    IF call.npos > Len(sig.named) THEN "TypeError"
    ELSE IF \E i \in (call.npos + 1)..Len(sig.named) : sig.named[i] \notin call.kw
         THEN "TypeError"
    ELSE IF ~sig.varkw /\ \E k \in call.kw : \A i \in 1..Len(sig.named) : sig.named[i] # k
         THEN "TypeError"
    ELSE "ok"

\* the attribute `name` read off the parameters after the backward pass
ReadAttr(store, name) == IF store.name = name THEN store.value ELSE <<>>

----------------------------------------------------------------------------
(* class BackPackGGN *)

\* BackPackGGN._get_diag_ggn(self)
GetDiagGGN(self, store) ==
    IF self.stochastic
    THEN Flatten(ReadAttr(store, "diag_ggn_mc"))
    ELSE Flatten(ReadAttr(store, "diag_ggn_exact"))

\* BackPackGGN._get_kron_factors(self)
GetKronFactors(self, store) ==
    IF self.stochastic
    THEN Kron(ReadAttr(store, "kfac"))
    ELSE Kron(ReadAttr(store, "kflr"))

\* as _rescale_kron_factors, but scaling the first factor of a pair
RescaleKronFactors_first(kron, M, N) ==
    [kron EXCEPT !.kfacs =
        [i \in 1..Len(kron.kfacs) |->
            LET F == kron.kfacs[i]
            IN  IF Len(F) = 2 THEN <<RMul(F[1], Rat(M, N)), F[2]>> ELSE F]]

\* BackPackGGN._rescale_kron_factors(kron, M, N): F[1] *= M/N for len(F) == 2
RescaleKronFactors(kron, M, N) ==
    [kron EXCEPT !.kfacs =
        [i \in 1..Len(kron.kfacs) |->
            LET F == kron.kfacs[i]
            IN  IF Len(F) = 2 THEN <<F[1], RMul(F[2], Rat(M, N))>> ELSE F]]

\* as BackPackGGN.diag, but keeping the outputs of the batch on the interface
GGN_diag_retains(self, X, draw) ==
    LET context == IF self.stochastic THEN "DiagGGNMC" ELSE "DiagGGNExact"
        f == Forward(X)
        loss == LossFunc(self.lossfunc, f, Targets(self.likelihood, X))
        bw == Backward(context, self, X, draw)
        dggn == GetDiagGGN(self, bw)
    IN  [status |-> "ok",
         loss |-> ScalarMul(self.factor, loss),
         curv |-> VecScale(self.factor, dggn),
         trace |-> <<"forward", "lossfunc", "backward", "extract", "return">>,
         self |-> [self EXCEPT !.extra = {"f"}], stored |-> bw, collected |-> "none"]

\* BackPackGGN.diag(self, X, y)
GGN_diag(self, X, draw) ==
    LET context == IF self.stochastic THEN "DiagGGNMC" ELSE "DiagGGNExact"
        f == Forward(X)
        loss == LossFunc(self.lossfunc, f, Targets(self.likelihood, X))
        bw == Backward(context, self, X, draw)
        dggn == GetDiagGGN(self, bw)
    IN  [status |-> "ok",
         loss |-> ScalarMul(self.factor, loss),
         curv |-> VecScale(self.factor, dggn),
         trace |-> <<"forward", "lossfunc", "backward", "extract", "return">>,
         self |-> self, stored |-> bw, collected |-> "none"]

\* BackPackGGN.kron(self, X, y, N)
GGN_kron(self, X, N, draw) ==
    LET context == IF self.stochastic THEN "KFAC" ELSE "KFLR"
        f == Forward(X)
        y == Targets(self.likelihood, X)
        loss == LossFunc(self.lossfunc, f, y)
        bw == Backward(context, self, X, draw)
        kron == GetKronFactors(self, bw)
        rescaled == RescaleKronFactors(kron, Len(y), N)
    IN  [status |-> "ok",
         loss |-> ScalarMul(self.factor, loss),
         curv |-> KronMul(self.factor, rescaled),
         trace |-> <<"forward", "lossfunc", "backward", "extract", "rescale", "return">>,
         self |-> self,
         stored |-> [bw EXCEPT !.value = rescaled.kfacs],    \* F[1] *= M/N is in place
         collected |-> kron.kfacs]

\* as BackPackGGN.full, but testing self.stochastic after the Jacobians are computed
GGN_full_lateRaise(self, X) ==
    LET jac == IF self.last_layer THEN last_layer_jacobians(X) ELSE jacobians(X)
        g == GetFullGGN(self, jac.Js, jac.f, Targets(self.likelihood, X))
    IN  IF self.stochastic
        THEN [Raise("ValueError", self) EXCEPT !.trace = <<"jacobians", "raise">>]
        ELSE [status |-> "ok", loss |-> g.loss, curv |-> g.H_ggn,
              trace |-> <<"jacobians", "lossfunc", "assemble", "return">>,
              self |-> self, stored |-> NoStore, collected |-> "none"]

\* BackPackGGN.full(self, X, y)
GGN_full(self, X) ==
    IF self.stochastic THEN Raise("ValueError", self)
    ELSE LET jac == IF self.last_layer THEN last_layer_jacobians(X) ELSE jacobians(X)
             g == GetFullGGN(self, jac.Js, jac.f, Targets(self.likelihood, X))
         IN  [status |-> "ok", loss |-> g.loss, curv |-> g.H_ggn,
              trace |-> <<"jacobians", "lossfunc", "assemble", "return">>,
              self |-> self, stored |-> NoStore, collected |-> "none"]

----------------------------------------------------------------------------
(* class BackPackEF *)

\* BackPackEF._get_individual_gradients(self): Gs[m] over the parameters
GetIndividualGradients(self, store, M) ==
    LET gb == ReadAttr(store, "grad_batch")
    IN  [m \in 1..M |-> Flatten([i \in 1..Len(gb) |-> gb[i][m]])]

\* as BackPackEF.diag, but reading the squared gradients of a second backward pass
EF_diag_twoBackward(self, X) ==
    LET f == Forward(X)
        loss == LossFunc(self.lossfunc, f, Targets(self.likelihood, X))
        bw == Backward("SumGradSquared", self, X, 0)
        diag_EF == Flatten(ReadAttr(bw, "sum_grad_squared"))
    IN  [status |-> "ok",
         loss |-> ScalarMul(self.factor, loss),
         curv |-> VecScale(self.factor, diag_EF),
         trace |-> <<"forward", "lossfunc", "backward", "backward", "extract", "return">>,
         self |-> self, stored |-> bw, collected |-> "none"]

\* BackPackEF.diag(self, X, y)
EF_diag(self, X) ==
    LET f == Forward(X)
        loss == LossFunc(self.lossfunc, f, Targets(self.likelihood, X))
        bw == Backward("SumGradSquared", self, X, 0)
        diag_EF == Flatten(ReadAttr(bw, "sum_grad_squared"))
    IN  [status |-> "ok",
         loss |-> ScalarMul(self.factor, loss),
         curv |-> VecScale(self.factor, diag_EF),
         trace |-> <<"forward", "lossfunc", "backward", "extract", "return">>,
         self |-> self, stored |-> bw, collected |-> "none"]

\* BackPackEF.kron(self, X, y)
EF_kron(self, X) == Raise("NotImplementedError", self)

\* as BackPackEF.full, but with the Gram matrix of the unscaled gradients returned
EF_full_unscaled(self, X) ==
    LET f == Forward(X)
        loss == LossFunc(self.lossfunc, f, Targets(self.likelihood, X))
        bw == Backward("BatchGrad", self, X, 0)
        Gs == GetIndividualGradients(self, bw, Len(X))
        P == 1..Len(Gs[1])
        H_ef == [p \in P |-> [q \in P |->
                    Sum1(1..Len(Gs), LAMBDA m : RMul(Gs[m][p], Gs[m][q]))]]
    IN  [status |-> "ok",
         loss |-> ScalarMul(self.factor, loss),
         curv |-> H_ef,
         trace |-> <<"forward", "lossfunc", "backward", "extract", "return">>,
         self |-> self, stored |-> bw, collected |-> "none"]

\* BackPackEF.full(self, X, y)
EF_full(self, X) ==
    LET f == Forward(X)
        loss == LossFunc(self.lossfunc, f, Targets(self.likelihood, X))
        bw == Backward("BatchGrad", self, X, 0)
        Gs == GetIndividualGradients(self, bw, Len(X))
        P == 1..Len(Gs[1])
        H_ef == [p \in P |-> [q \in P |->
                    Sum1(1..Len(Gs), LAMBDA m : RMul(Gs[m][p], Gs[m][q]))]]
    IN  [status |-> "ok",
         loss |-> ScalarMul(self.factor, loss),
         curv |-> MatScale(self.factor, H_ef),
         trace |-> <<"forward", "lossfunc", "backward", "extract", "return">>,
         self |-> self, stored |-> bw, collected |-> "none"]

----------------------------------------------------------------------------
(* The state machine *)

Likelihoods == {"regression", "classification", "poisson"}

Ops == {"full", "kron", "diag"}

NoPending == [op |-> "none", style |-> "none", N |-> 0, X |-> <<>>]

NoRes ==
    [op |-> "none", style |-> "none", N |-> 0, X |-> <<>>, status |-> "none",
     loss |-> "none", curv |-> "none", trace |-> <<>>, stored |-> NoStore,
     collected |-> "none"]

NoErr == [op |-> "none", style |-> "none", err |-> "none"]

NoArgs == [family |-> "none", likelihood |-> "none", last_layer |-> FALSE, stochastic |-> FALSE]

\* the values of the model's parameter tensors, as trained
ParamValues == [i \in 1..Len(ParamNames) |-> [j \in 1..Numel[i] |-> RInt(i + j)]]

Init ==
    /\ iface = NoIface
    /\ ctor = [status |-> "none", args |-> NoArgs, trace |-> <<>>]
    /\ extended = {}
    /\ params = ParamValues
    /\ attrs = {}
    /\ pending = NoPending
    /\ res = NoRes
    /\ lastErr = NoErr

Constructed(out, args) ==
    /\ ctor.status = "none"
    /\ ctor' = [status |-> out.status, args |-> args, trace |-> out.trace]
    /\ iface' = IF out.status = "ok" THEN out.self ELSE NoIface
    /\ extended' = extended \cup out.extended
    /\ UNCHANGED <<params, attrs, pending, res, lastErr>>

\* BackPackGGN(model, likelihood, last_layer, stochastic)
ConstructGGN ==
    \E likelihood \in Likelihoods, last_layer \in BOOLEAN, stochastic \in BOOLEAN :
        Constructed(BackPackGGN_init(NoIface, likelihood, last_layer, stochastic),
                    [family |-> "GGN", likelihood |-> likelihood,
                     last_layer |-> last_layer, stochastic |-> stochastic])

\* BackPackEF(model, likelihood, last_layer)
ConstructEF ==
    \E likelihood \in Likelihoods, last_layer \in BOOLEAN :
        Constructed(BackPackEF_init(NoIface, likelihood, last_layer),
                    [family |-> "EF", likelihood |-> likelihood,
                     last_layer |-> last_layer, stochastic |-> FALSE])

\* the caller issues full(X, y), diag(X, y), kron(X, y, N) or kron(X, y, N=N)
Call ==
    /\ iface.family # "none"
    /\ pending.op = "none"
    /\ res.op = "none"
    /\ \E X \in Batches, op \in Ops :
        \E style \in (IF op = "kron" THEN {"positional", "keyword"} ELSE {"xy"}),
           N \in (IF op = "kron" THEN 1..MaxN ELSE {0}) :
            pending' = [op |-> op, style |-> style, N |-> N, X |-> X]
    /\ UNCHANGED <<iface, ctor, extended, params, attrs, res, lastErr>>

\* the caller is done with what the call returned or raised
Discard ==
    /\ res.op # "none"
    /\ res' = NoRes
    /\ UNCHANGED <<iface, ctor, extended, params, attrs, pending, lastErr>>

\* the handler has run to its return or its raise
Completed(out) ==
    /\ res' = [op |-> pending.op, style |-> pending.style, N |-> pending.N,
               X |-> pending.X, status |-> out.status, loss |-> out.loss,
               curv |-> out.curv, trace |-> out.trace, stored |-> out.stored,
               collected |-> out.collected]
    /\ iface' = out.self
    /\ attrs' = IF out.stored.name = "none" THEN attrs
                ELSE attrs \cup {"grad", out.stored.name}
    /\ lastErr' = IF out.status = "ok" THEN lastErr
                  ELSE [op |-> pending.op, style |-> pending.style, err |-> out.status]
    /\ pending' = NoPending
    /\ UNCHANGED <<ctor, extended, params>>

Handles(family, op) ==
    /\ iface.family = family
    /\ pending.op = op

Bound(family, op) == Bind(Signature(family, op), CallStyle(pending.style)) = "ok"

\* the call does not bind to the handler's signature
BindFails ==
    /\ pending.op # "none"
    /\ ~Bound(iface.family, pending.op)
    /\ Completed(Raise("TypeError", iface))

GGNDiag ==
    /\ Handles("GGN", "diag") /\ Bound("GGN", "diag")
    /\ \E draw \in DrawsOf(IF iface.stochastic THEN "DiagGGNMC" ELSE "DiagGGNExact") :
        Completed(GGN_diag(iface, pending.X, draw))

GGNKron ==
    /\ Handles("GGN", "kron") /\ Bound("GGN", "kron")
    /\ \E draw \in Draws : Completed(GGN_kron(iface, pending.X, pending.N, draw))

GGNFull ==
    /\ Handles("GGN", "full") /\ Bound("GGN", "full")
    /\ Completed(GGN_full(iface, pending.X))

EFDiag ==
    /\ Handles("EF", "diag") /\ Bound("EF", "diag")
    /\ Completed(EF_diag(iface, pending.X))

EFKron ==
    /\ Handles("EF", "kron") /\ Bound("EF", "kron")
    /\ Completed(EF_kron(iface, pending.X))

EFFull ==
    /\ Handles("EF", "full") /\ Bound("EF", "full")
    /\ Completed(EF_full(iface, pending.X))

Next ==
    \/ ConstructGGN
    \/ ConstructEF
    \/ Call
    \/ Discard
    \/ BindFails
    \/ GGNDiag
    \/ GGNKron
    \/ GGNFull
    \/ EFDiag
    \/ EFKron
    \/ EFFull

Spec == Init /\ [][Next]_vars

----------------------------------------------------------------------------
(* Reference quantities, written from the mathematical statements *)

\* the factor the likelihood induces
FactorOf(likelihood) == IF likelihood = "regression" THEN Rat(1, 2) ELSE ROne

\* the unscaled loss of the batch of the last call
RefLoss == LossFunc(iface.lossfunc, Forward(res.X), Targets(iface.likelihood, res.X))

\* J[m][k][p]: derivative of output k of example m with respect to the p-th
\* parameter among those of the interface's (sub)model
RefJ(m, k, p) == res.X[m].J[k][Cols(iface)[p]]

RefP == 1..Len(Cols(iface))
RefM == 1..Len(res.X)
RefK == 1..Len(res.X[1].out)

\* softmax of the outputs of example m
RefProb(m) ==
    LET w == res.X[m].out
        total == Sum1(1..Len(w), LAMBDA c : RInt(w[c]))
    IN  [k \in 1..Len(w) |-> RMul(RInt(w[k]), Rat(total[2], total[1]))]

\* entry (c, k) of diag(p) - p p^T for example m
RefHlik(m, c, k) ==
    IF c = k THEN RSub(RefProb(m)[c], RMul(RefProb(m)[c], RefProb(m)[c]))
    ELSE RSub(RZero, RMul(RefProb(m)[c], RefProb(m)[k]))

\* sum over examples of J^T J, entry (p, q)
RefJtJ(p, q) == Sum2(RefM, RefK, LAMBDA m, k : RInt(RefJ(m, k, p) * RefJ(m, k, q)))

\* sum over examples and class pairs of J Hlik J, entry (p, q)
RefJHJ(p, q) ==
    Sum3(RefM, RefK, RefK,
         LAMBDA m, c, k : RMul(RMul(RInt(RefJ(m, c, p)), RefHlik(m, c, k)), RInt(RefJ(m, k, q))))

\* the same contraction as a covariance of the Jacobian rows under softmax
RefJCovJ(p, q) ==
    Sum1(RefM, LAMBDA m :
        RSub(Sum1(RefK, LAMBDA c : RMul(RefProb(m)[c], RInt(RefJ(m, c, p) * RefJ(m, c, q)))),
             RMul(Sum1(RefK, LAMBDA c : RMul(RefProb(m)[c], RInt(RefJ(m, c, p)))),
                  Sum1(RefK, LAMBDA k : RMul(RefProb(m)[k], RInt(RefJ(m, k, q)))))))

\* the assembled generalized Gauss-Newton matrix of the statement
RefGGN == [p \in RefP |-> [q \in RefP |->
            IF iface.likelihood = "regression" THEN RefJtJ(p, q) ELSE RefJHJ(p, q)]]

\* gradient of the loss of example m with respect to parameter p
RefGrad(m, p) == GradExample(iface.lossfunc, res.X[m], Cols(iface)[p])

\* the Gram matrix G^T G of the per-example gradients
RefGram == [p \in RefP |-> [q \in RefP |->
            Sum1(RefM, LAMBDA m : RMul(RefGrad(m, p), RefGrad(m, q)))]]

Count(tr, e) == Cardinality({i \in 1..Len(tr) : tr[i] = e})
Pos(tr, e) == CHOOSE i \in 1..Len(tr) : tr[i] = e

Returned == res.status = "ok"
IsGGNFull == iface.family = "GGN" /\ res.op = "full"

----------------------------------------------------------------------------
(* Claims *)

\* the unscaled quantity behind the curvature of the last successful call
\* of an operation other than the full GGN
EngineCurvScaled(c) ==
    CASE res.op = "diag" -> VecScale(c, Flatten(res.stored.value))
      [] res.op = "kron" -> KronMul(c, Kron(res.stored.value))
      [] res.op = "full" -> MatScale(c, RefGram)

C2_Original ==
    res.op # "none" =>
        res.status =
            IF iface.family = "GGN" /\ iface.stochastic /\ res.op = "full" THEN "ValueError"
            ELSE IF iface.family = "EF" /\ res.op = "kron" THEN "NotImplementedError"
            ELSE "ok"

\* C3: the rescaling in kron multiplies the second factor of every two-factor
\* group by M/N and leaves first factors and single-factor groups alone.
C3_Rescaling ==
    (Returned /\ res.op = "kron") =>
        LET pre == res.collected         \* the groups as collected off the parameters
            post == res.stored.value     \* the groups after the rescaling
            M == Len(res.X)
        IN  /\ Len(post) = Len(pre)
            /\ \A i \in 1..Len(pre) :
                /\ Len(post[i]) = Len(pre[i])
                /\ Len(pre[i]) = 2 =>
                    /\ post[i][1] = pre[i][1]
                    /\ post[i][2] = RMul(pre[i][2], Rat(M, res.N))
                    /\ RMul(post[i][2], RInt(res.N)) = RMul(pre[i][2], RInt(M))
                    /\ (M = res.N => post[i][2] = pre[i][2])
                /\ Len(pre[i]) # 2 => post[i] = pre[i]

C3_Witness ==
    /\ Returned /\ res.op = "kron" /\ iface.stochastic
    /\ Len(res.X) < res.N
    /\ \E i \in 1..Len(res.collected) :
        Len(res.collected[i]) = 2 /\ res.stored.value[i][2] # res.collected[i][2]
    /\ \E i \in 1..Len(res.collected) : Len(res.collected[i]) = 1

IsRegressionFull ==
    /\ Returned /\ IsGGNFull /\ iface.likelihood = "regression" /\ ~iface.stochastic

IsClassificationFull ==
    /\ Returned /\ IsGGNFull /\ iface.likelihood = "classification" /\ ~iface.stochastic

\* C5: for classification, the exact full GGN has entry (p, q) equal to the sum
\* over examples and class pairs of J Hlik J with Hlik = diag(p) - p p^T, the
\* off-diagonal terms -p_c p_k included; Hlik is symmetric.
C5_ClassificationFull ==
    IsClassificationFull =>
        /\ Len(res.curv) = Len(Cols(iface))
        /\ \A p \in RefP, q \in RefP :
            /\ res.curv[p][q] = RefJHJ(p, q)
            /\ res.curv[p][q] = RefJCovJ(p, q)
        /\ \A m \in RefM, c \in RefK, k \in RefK : RefHlik(m, c, k) = RefHlik(m, k, c)

C5_Witness ==
    /\ IsClassificationFull /\ Len(res.X) = 2
    /\ \E m \in RefM : RefProb(m)[1] # RefProb(m)[2]
    /\ \E p \in RefP, q \in RefP :
        Sum3(RefM, RefK, RefK,
             LAMBDA m, c, k : IF c = k THEN RZero
                              ELSE RMul(RMul(RInt(RefJ(m, c, p)), RefHlik(m, c, k)),
                                        RInt(RefJ(m, k, q)))) # RZero

IsEF(op) == Returned /\ iface.family = "EF" /\ res.op = op

\* C6: on an Empirical-Fisher interface, diag(X, y) is the diagonal of
\* full(X, y) for the same batch, entry p being factor * sum over examples of
\* g[example, p]^2, with the parameters in the same order; the losses agree.
C6_DiagOfFull ==
    /\ IsEF("diag") =>
        LET full == EF_full(iface, res.X)
        IN  /\ full.status = "ok"
            /\ Len(res.curv) = Len(full.curv)
            /\ \A p \in RefP :
                /\ res.curv[p] = full.curv[p][p]
                /\ res.curv[p] = RMul(FactorOf(iface.likelihood),
                                      Sum1(RefM, LAMBDA m : RMul(RefGrad(m, p), RefGrad(m, p))))
            /\ res.loss = full.loss
    /\ IsEF("full") =>
        LET diag == EF_diag(iface, res.X)
        IN  /\ diag.status = "ok"
            /\ Len(res.curv) = Len(diag.curv)
            /\ \A p \in RefP : res.curv[p][p] = diag.curv[p]
            /\ res.curv = MatScale(FactorOf(iface.likelihood), RefGram)
            /\ res.loss = diag.loss

C6_Witness ==
    /\ IsEF("diag") /\ iface.likelihood = "regression" /\ ~iface.last_layer
    /\ Len(res.X) = 2
    /\ res.curv[1] # RZero
    /\ res.curv[1] # res.curv[2]

Unsupported(op) ==
    \/ iface.family = "GGN" /\ iface.stochastic /\ op = "full"
    \/ iface.family = "EF" /\ op = "kron"

\* C7: full on a stochastic GGN interface and kron on an Empirical-Fisher
\* interface raise before any forward pass, backward pass or Jacobian
\* computation, leave the interface and the model as they were, and raise the
\* same error whenever the same call is made again.
C7_RaisesFirst ==
    [][(pending.op # "none" /\ Unsupported(pending.op) /\ res'.op # "none") =>
        /\ res'.status \notin {"ok", "none"}
        /\ Count(res'.trace, "forward") = 0
        /\ Count(res'.trace, "backward") = 0
        /\ Count(res'.trace, "jacobians") = 0
        /\ res'.stored = NoStore
        /\ iface' = iface /\ params' = params /\ attrs' = attrs /\ extended' = extended
        /\ (lastErr.op = pending.op /\ lastErr.style = pending.style)
                => res'.status = lastErr.err]_vars

C7_Witness ==
    /\ res.status = "ValueError" /\ res.op = "full"
    /\ lastErr.err = "ValueError"
    /\ attrs # {}

\* C8: constructing either family with a likelihood other than regression or
\* classification fails before anything is registered with the engine and
\* before any batch is processed; with regression or classification it
\* succeeds and fixes the loss function and the factor.
C8_Construction ==
    ctor.status # "none" =>
        IF ctor.args.likelihood \notin {"regression", "classification"}
        THEN /\ ctor.status = "AssertionError"
             /\ extended = {}
             /\ Count(ctor.trace, "extend_model") = 0
             /\ Count(ctor.trace, "extend_lossfunc") = 0
             /\ iface = NoIface
             /\ pending = NoPending /\ res = NoRes /\ attrs = {}
        ELSE /\ ctor.status = "ok"
             /\ iface.likelihood = ctor.args.likelihood
             /\ iface.lossfunc = IF ctor.args.likelihood = "regression"
                                 THEN "MSELoss" ELSE "CrossEntropyLoss"
             /\ iface.factor = IF ctor.args.likelihood = "regression"
                               THEN Rat(1, 2) ELSE ROne
             /\ extended = {Model_(iface), "lossfunc"}

C8_Witness ==
    /\ ctor.status = "AssertionError"
    /\ ctor.args.family = "EF"
    /\ ctor.args.likelihood = "poisson"

PassesInOrder(tr) ==
    /\ Count(tr, "forward") = 1
    /\ Count(tr, "backward") = 1
    /\ Count(tr, "extract") = 1
    /\ Pos(tr, "forward") < Pos(tr, "backward")
    /\ Pos(tr, "backward") < Pos(tr, "extract")
    /\ tr[Len(tr)] = "return"
    /\ Pos(tr, "extract") < Len(tr)

\* C9 as stated: every successful full, kron or diag, on either family, makes
\* exactly one forward pass and then exactly one backward pass through the
\* engine, extracts after the backward pass, and returns after both.
C9_Original == Returned => PassesInOrder(res.trace)

\* C9 amended: that holds of diag and kron of the GGN family and of diag and
\* full of the Empirical-Fisher family; full of the GGN family makes no
\* forward or backward pass of its own: it calls the Jacobian routine once,
\* evaluates the loss, assembles the matrix and returns.
C9_Passes ==
    Returned =>
        IF IsGGNFull
        THEN /\ Count(res.trace, "forward") = 0
             /\ Count(res.trace, "backward") = 0
             /\ Count(res.trace, "jacobians") = 1
             /\ Count(res.trace, "assemble") = 1
             /\ Pos(res.trace, "jacobians") < Pos(res.trace, "assemble")
             /\ res.trace[Len(res.trace)] = "return"
        ELSE PassesInOrder(res.trace)

C9_Witness ==
    /\ Returned /\ iface.family = "EF" /\ res.op = "diag"
    /\ Count(res.trace, "backward") = 1

ConfigAsConstructed ==
    /\ iface.family = ctor.args.family
    /\ iface.likelihood = ctor.args.likelihood
    /\ iface.last_layer = ctor.args.last_layer
    /\ iface.stochastic = ctor.args.stochastic
    /\ iface.factor = FactorOf(ctor.args.likelihood)
    /\ iface.lossfunc = IF ctor.args.likelihood = "regression"
                        THEN "MSELoss" ELSE "CrossEntropyLoss"

\* C10 as stated: after construction and any sequence of calls the parameter
\* values and the configuration are unchanged, the interface retains nothing
\* of a batch, and the registration at construction is the only model-side
\* effect.
C10_Original ==
    ctor.status = "ok" =>
        /\ params = ParamValues
        /\ ConfigAsConstructed
        /\ iface.extra = {}
        /\ extended = {Model_(iface), "lossfunc"}
        /\ attrs = {}

\* C10 amended: the parameter values and the configuration are unchanged and
\* the interface object itself retains nothing of a batch; but every
\* successful call with a backward pass leaves on the model's parameters the
\* quantities that pass stored there (the gradient and the attribute of the
\* extension), so the registration is not the only model-side effect.
C10_Frame ==
    ctor.status = "ok" =>
        /\ params = ParamValues
        /\ ConfigAsConstructed
        /\ iface.extra = {}
        /\ extended = {Model_(iface), "lossfunc"}
        /\ attrs \subseteq
            (IF iface.family = "EF" THEN {"grad", "sum_grad_squared", "grad_batch"}
             ELSE IF iface.stochastic THEN {"grad", "diag_ggn_mc", "kfac"}
             ELSE {"grad", "diag_ggn_exact", "kflr"})
        /\ (Returned /\ ~IsGGNFull) => {"grad", res.stored.name} \subseteq attrs
        /\ (res.op # "none" /\ (~Returned \/ IsGGNFull)) => res.stored = NoStore

C10_Witness ==
    /\ ctor.status = "ok" /\ Returned /\ res.op = "kron"
    /\ "kflr" \in attrs /\ "diag_ggn_exact" \in attrs
    /\ params = ParamValues

----------------------------------------------------------------------------
(* Consistency of the two GGN routes *)

\* On an exact GGN interface the vector returned by diag is the diagonal of the
\* matrix returned by full: factor * (diagonal GGN of the unscaled loss, whose
\* output Hessian is 2 I for the summed squared error) is the diagonal of the
\* matrix assembled with the identity, which carries no factor.
GGNDiagIsDiagonalOfFull ==
    (Returned /\ iface.family = "GGN" /\ ~iface.stochastic /\ res.op = "diag") =>
        \A p \in RefP : res.curv[p] = RefGGN[p][p]

====
